---- MODULE Spec2Model ----
(***************************************************************************)
(* The trend-credibility dashboard script: src/app.js (the dashboard with  *)
(* category tabs and source health) and src/unnamed/part_000 (the earlier  *)
(* copy of the script, without tabs and source health).                    *)
(*                                                                         *)
(* Strings the code inspects character by character (the limit control's   *)
(* value, source names, status strings) are sequences of one-character     *)
(* strings.  Strings the code only compares or copies are TLA+ strings.    *)
(*                                                                         *)
(* A call of runAnalysis is suspended at `await fetch` and `await          *)
(* response.json()`.  Nothing of the page changes between the two, so a    *)
(* suspended call is one entry of `pending` and settles in one step: catch *)
(* and finally after a rejection or a non-success status, or the three     *)
(* render calls, the status line and finally after a parsed body.  Each    *)
(* entry also records the category its request carried and the view at the *)
(* time it was issued.                                                     *)
(***************************************************************************)
EXTENDS Integers, Sequences, FiniteSets, TLC

VARIABLES
    loaded,            \* the script's top level has run (listeners attached)
    selectedCategory,  \* let selectedCategory
    limitValue,        \* limitEl.value as last read by runAnalysis
    refreshDisabled,   \* refreshBtn.disabled
    status,            \* statusEl.textContent and whether it has the error colour
    summary,           \* the four summary elements' text
    pills,             \* children of sourceHealthEl
    cards,             \* children of resultsEl
    pending,           \* runAnalysis calls suspended at their await, in issue order
    lastUrl,           \* the URL most recently handed to fetch
    lastData,          \* the value of `data` most recently obtained from response.json()
    lastOp             \* the handler that ran last, as [op, arg, recovery]

vars == <<loaded, selectedCategory, limitValue, refreshDisabled, status, summary,
          pills, cards, pending, lastUrl, lastData, lastOp>>

-----------------------------------------------------------------------------
(* Bounds of the model *)

\* runAnalysis calls that may be suspended at the same time
MaxPending == 2

\* longest results array a rendering function is applied to
MaxResults == 3

\* most entries of a source_health mapping renderSourceHealth is applied to
MaxHealth == 2

-----------------------------------------------------------------------------
(* Constants of the program *)

\* ids of CATEGORIES, in display order
CATEGORIES ==
    << "all", "local", "india", "world", "entertainment", "health",
       "trending", "sports", "esports", "food", "events" >>

CATEGORY_LABELS ==
    [ all |-> "All", local |-> "Local", india |-> "India", world |-> "World",
      entertainment |-> "Entertainment", health |-> "Health",
      trending |-> "Trending", sports |-> "Sports", esports |-> "Esports",
      food |-> "Food", events |-> "Events" ]

\* CATEGORY_LABELS[id] || id
LabelOf(id) == IF id \in DOMAIN CATEGORY_LABELS THEN CATEGORY_LABELS[id] ELSE id

\* the default of `limitEl.value || 20`
DefaultLimit == 20

-----------------------------------------------------------------------------
(* Character strings *)

Digits == << "0", "1", "2", "3", "4", "5", "6", "7", "8", "9" >>

IsDigit(ch) == \E d \in 1..10 : Digits[d] = ch

DigitValue(ch) == (CHOOSE d \in 1..10 : Digits[d] = ch) - 1

RECURSIVE DecimalValue(_)
DecimalValue(s) ==
    IF s = <<>> THEN 0
    ELSE 10 * DecimalValue(SubSeq(s, 1, Len(s) - 1)) + DigitValue(s[Len(s)])

NaN == [isNaN |-> TRUE, val |-> 0]

Num(n) == [isNaN |-> FALSE, val |-> n]

\* Number(s) for a string s of decimal digits and letters a, b, c:
\* the empty string is 0, a digit string its decimal value, anything else NaN
ToNumber(s) ==
    IF \A i \in 1..Len(s) : IsDigit(s[i]) THEN Num(DecimalValue(s)) ELSE NaN

\* Number(limitEl.value || 20): the empty string is falsy
ReadLimit(v) == IF v = <<>> THEN Num(DefaultLimit) ELSE ToNumber(v)

StartsWith(s, p) == Len(s) >= Len(p) /\ SubSeq(s, 1, Len(p)) = p

Includes(s, p) ==
    \E i \in 1..(Len(s) - Len(p) + 1) : SubSeq(s, i, i + Len(p) - 1) = p

\* s.replace(ch, r) with a string pattern: only the first occurrence
ReplaceFirst(s, ch, r) ==
    IF \E i \in 1..Len(s) : s[i] = ch
    THEN LET i == CHOOSE k \in 1..Len(s) :
                      s[k] = ch /\ \A j \in 1..(k - 1) : s[j] # ch
         IN  SubSeq(s, 1, i - 1) \o <<r>> \o SubSeq(s, i + 1, Len(s))
    ELSE s

-----------------------------------------------------------------------------
(* Rendering functions of src/app.js *)

verdictClass(verdict) ==
    IF verdict = "Likely Real" THEN "real"
    ELSE IF verdict = "Likely Misleading" THEN "fake"
    ELSE "warn"

\* ---- Number arithmetic of renderSummary ----
\* A Number is an IEEE 754 double.  The doubles renderSummary meets here lie
\* in [1, 2^20) or are 0, so each is a whole multiple of 2^-52; it is kept as
\* that multiple, written in four limbs of 20 bits, least significant first.
Limb == 1048576

FxZero == << 0, 0, 0, 0 >>

\* exact sum of two multiples
FxAdd(a, b) ==
    LET s1 == a[1] + b[1]
        s2 == a[2] + b[2] + (s1 \div Limb)
        s3 == a[3] + b[3] + (s2 \div Limb)
        s4 == a[4] + b[4] + (s3 \div Limb)
    IN  << s1 % Limb, s2 % Limb, s3 % Limb, s4 >>

\* exact product with a small integer
FxMulSmall(a, k) ==
    LET p1 == a[1] * k
        p2 == a[2] * k + (p1 \div Limb)
        p3 == a[3] * k + (p2 \div Limb)
        p4 == a[4] * k + (p3 \div Limb)
    IN  << p1 % Limb, p2 % Limb, p3 % Limb, p4 >>

\* exact quotient and remainder of the division by a small integer
FxDivSmall(a, n) ==
    LET r4 == a[4] % n
        d3 == r4 * Limb + a[3]
        d2 == (d3 % n) * Limb + a[2]
        d1 == (d2 % n) * Limb + a[1]
    IN  [ q |-> << d1 \div n, d2 \div n, d3 \div n, a[4] \div n >>,
          r |-> d1 % n ]

RECURSIVE Pow2(_)
Pow2(k) == IF k = 0 THEN 1 ELSE 2 * Pow2(k - 1)

\* number of binary digits of a natural number below 2^31
RECURSIVE BitsOf(_)
BitsOf(x) == IF x = 0 THEN 0 ELSE 1 + BitsOf(x \div 2)

\* number of binary digits of a multiple
BitLen(a) ==
    IF a[4] # 0 THEN 60 + BitsOf(a[4])
    ELSE IF a[3] # 0 THEN 40 + BitsOf(a[3])
    ELSE IF a[2] # 0 THEN 20 + BitsOf(a[2])
    ELSE BitsOf(a[1])

\* the double nearest to a + r/n multiples (0 <= r < n), ties to even: the
\* result keeps 53 significant binary digits.  Fewer than 53 digits with
\* r = 0 is the case of 0, which is exact.
RoundToDouble(a, r, n) ==
    LET s == BitLen(a) - 53
    IN  IF s < 0 THEN a
        ELSE IF s = 0
        THEN IF 2 * r > n \/ (2 * r = n /\ a[1] % 2 = 1)
             THEN FxAdd(a, << 1, 0, 0, 0 >>)
             ELSE a
        ELSE LET unit  == Pow2(s)
                 half  == unit \div 2
                 low   == a[1] % unit
                 down  == << a[1] - low, a[2], a[3], a[4] >>
                 up    == FxAdd(down, << unit, 0, 0, 0 >>)
                 odd   == (a[1] \div unit) % 2 = 1
             IN  IF low > half \/ (low = half /\ r > 0) THEN up
                 ELSE IF low = half /\ r = 0 THEN (IF odd THEN up ELSE down)
                 ELSE down

\* x + y on doubles
FloatAdd(x, y) == RoundToDouble(FxAdd(x, y), 0, 1)

\* x / n on doubles, n a small positive integer
FloatDiv(x, n) ==
    LET d == FxDivSmall(x, n)
    IN  RoundToDouble(d.q, d.r, n)

\* the double a JSON number with two decimals parses to; h is the number in
\* hundredths, 100 <= h
Double(h) ==
    LET scaled == << 0, 0, (h * 4096) % Limb, (h * 4096) \div Limb >>
        d      == FxDivSmall(scaled, 100)
    IN  RoundToDouble(d.q, d.r, 100)

\* x.toFixed(1) in tenths: the integer t for which t/10 - x is closest to
\* zero, the larger one of two
ToFixed1(x) ==
    LET t == FxAdd(FxMulSmall(x, 10), << 0, 0, 2048, 0 >>)
    IN  (t[3] \div 4096) + t[4] * 256

\* results.reduce((sum, r) => sum + r.fake_probability, 0)
RECURSIVE SumFake(_)
SumFake(results) ==
    IF results = <<>> THEN FxZero
    ELSE FloatAdd(SumFake(SubSeq(results, 1, Len(results) - 1)),
                  Double(results[Len(results)].fake_probability))

\* a count that takes every result with either verdict
CountVerdictEither(results, v) ==
    Cardinality({i \in 1..Len(results) :
                    results[i].verdict \in {"Likely Misleading", "Likely Real"}})

CountVerdict(results, v) ==
    Cardinality({i \in 1..Len(results) : results[i].verdict = v})

\* avgFake.toFixed(1), in tenths of a percent
AvgFakeTenths(results) ==
    IF Len(results) = 0 THEN 0
    ELSE ToFixed1(FloatDiv(SumFake(results), Len(results)))

renderSummary(results) ==
    [ total      |-> Len(results),
      misleading |-> CountVerdict(results, "Likely Misleading"),
      real       |-> CountVerdict(results, "Likely Real"),
      avgFake    |-> AvgFakeTenths(results) ]

OkPrefix == << "o", "k" >>

FallbackWord == << "f", "a", "l", "l", "b", "a", "c", "k" >>

\* a pill that is ok only when the status starts with "ok"
PillPrefixOnly(entry) ==
    [ ok   |-> StartsWith(entry.status, OkPrefix),
      text |-> ReplaceFirst(entry.source, "_", " ") \o << ":", " " >> \o entry.status ]

Pill(entry) ==
    [ ok   |-> StartsWith(entry.status, OkPrefix) \/ Includes(entry.status, FallbackWord),
      text |-> ReplaceFirst(entry.source, "_", " ") \o << ":", " " >> \o entry.status ]

renderSourceHealth(sourceHealth) ==
    [i \in 1..Len(sourceHealth) |-> Pill(sourceHealth[i])]

\* buildCard throws a TypeError on a record without trend, evidence or reasons
BuildCardThrows(item) == item.shape # "ok"

buildCard(item) ==
    [ kind         |-> "card",
      title        |-> item.title,
      category     |-> LabelOf(item.category),
      verdict      |-> item.verdict,
      verdictClass |-> verdictClass(item.verdict),
      fake         |-> item.fake_probability ]

RECURSIVE BuildCards(_)
BuildCards(items) ==
    IF items = <<>> THEN <<>>
    ELSE <<buildCard(Head(items))>> \o BuildCards(Tail(items))

\* item.trend.category || "trending"
GroupKey(item) == IF item.category = "" THEN "trending" ELSE item.category

\* a grouping that puts each item in front of its group (unshift for push)
RECURSIVE GroupOfUnshift(_, _)
GroupOfUnshift(results, id) ==
    IF results = <<>> THEN <<>>
    ELSE IF GroupKey(Head(results)) = id
         THEN GroupOfUnshift(Tail(results), id) \o <<Head(results)>>
         ELSE GroupOfUnshift(Tail(results), id)

\* groups.get(id) || []: the items pushed under the key id, in response order
RECURSIVE GroupOf(_, _)
GroupOf(results, id) ==
    IF results = <<>> THEN <<>>
    ELSE IF GroupKey(Head(results)) = id
         THEN <<Head(results)>> \o GroupOf(Tail(results), id)
         ELSE GroupOf(Tail(results), id)

\* CATEGORIES.filter((c) => c.id !== "all")
RECURSIVE SectionCategories(_)
SectionCategories(cats) ==
    IF cats = <<>> THEN <<>>
    ELSE IF Head(cats) # "all"
         THEN <<Head(cats)>> \o SectionCategories(Tail(cats))
         ELSE SectionCategories(Tail(cats))

\* the forEach over the section categories: a section is appended to resultsEl
\* only after all its cards are built, so a throw leaves the earlier sections
RECURSIVE RenderSections(_, _)
RenderSections(cats, results) ==
    IF cats = <<>> THEN [nodes |-> <<>>, threw |-> FALSE]
    ELSE LET items == GroupOf(results, Head(cats))
             rest  == RenderSections(Tail(cats), results)
         IN  IF items = <<>> THEN rest
             ELSE IF \E i \in 1..Len(items) : BuildCardThrows(items[i])
                  THEN [nodes |-> <<>>, threw |-> TRUE]
                  ELSE [nodes |-> << [ kind    |-> "section",
                                       id      |-> Head(cats),
                                       heading |-> << LabelOf(Head(cats)), " News" >>,
                                       items   |-> BuildCards(items) ] >> \o rest.nodes,
                        threw |-> rest.threw]

\* the flat forEach: each card is appended as soon as it is built
RECURSIVE RenderFlat(_)
RenderFlat(results) ==
    IF results = <<>> THEN [nodes |-> <<>>, threw |-> FALSE]
    ELSE IF BuildCardThrows(Head(results))
         THEN [nodes |-> <<>>, threw |-> TRUE]
         ELSE LET rest == RenderFlat(Tail(results))
              IN  [nodes |-> <<buildCard(Head(results))>> \o rest.nodes,
                   threw |-> rest.threw]

\* a renderCards that does not call clearResults(): the children resultsEl
\* already has stay in front of the new ones
renderCardsNoClear(sel, results) ==
    LET drawn == IF sel = "all"
                 THEN IF \E i \in 1..Len(results) : results[i].shape = "noTrend"
                      THEN [nodes |-> <<>>, threw |-> TRUE]
                      ELSE RenderSections(SectionCategories(CATEGORIES), results)
                 ELSE RenderFlat(results)
    IN  [nodes |-> cards \o drawn.nodes, threw |-> drawn.threw]

\* renderCards(results) with selectedCategory = sel: the children of resultsEl
\* it leaves, and whether it threw.  clearResults() runs first in every case.
renderCards(sel, results) ==
    IF sel = "all"
    THEN IF \E i \in 1..Len(results) : results[i].shape = "noTrend"
         THEN [nodes |-> <<>>, threw |-> TRUE]
         ELSE RenderSections(SectionCategories(CATEGORIES), results)
    ELSE RenderFlat(results)

-----------------------------------------------------------------------------
(* Backend responses *)

LikelyReal == "Likely Real"

LikelyMisleading == "Likely Misleading"

\* fake_probability is the JSON number in hundredths: 9935 is 99.35
ItemSports ==
    [ title |-> "t1", category |-> "sports", verdict |-> LikelyMisleading,
      fake_probability |-> 9935, shape |-> "ok" ]

ItemSportsLater ==
    [ title |-> "t2", category |-> "sports", verdict |-> "Unverified",
      fake_probability |-> 6320, shape |-> "ok" ]

ItemLocal ==
    [ title |-> "t3", category |-> "local", verdict |-> LikelyReal,
      fake_probability |-> 3530, shape |-> "ok" ]

\* trend.category is none of the ids of CATEGORIES
ItemUnknown ==
    [ title |-> "t4", category |-> "politics", verdict |-> LikelyReal,
      fake_probability |-> 1000, shape |-> "ok" ]

\* trend.category is absent
ItemAbsent ==
    [ title |-> "t5", category |-> "", verdict |-> LikelyMisleading,
      fake_probability |-> 9000, shape |-> "ok" ]

\* a record without a trend field
ItemNoTrend ==
    [ title |-> "", category |-> "", verdict |-> "Unverified",
      fake_probability |-> 5000, shape |-> "noTrend" ]

\* a record without a reasons field
ItemNoReasons ==
    [ title |-> "t6", category |-> "sports", verdict |-> LikelyReal,
      fake_probability |-> 1000, shape |-> "noReasons" ]

\* a record without an evidence field
ItemNoEvidence ==
    [ title |-> "t7", category |-> "local", verdict |-> LikelyReal,
      fake_probability |-> 1000, shape |-> "noEvidence" ]

HealthOk ==
    << [ source |-> << "a", "_", "b" >>, status |-> << "o", "k" >> ] >>

HealthDown ==
    << [ source |-> << "n" >>, status |-> << "d", "o", "w", "n" >> ] >>

Payload(hasResults, results, hasHealth, health, at) ==
    [ hasResults |-> hasResults, results |-> results,
      hasHealth |-> hasHealth, source_health |-> health, generated_at |-> at ]

DataNoHealth == Payload(TRUE, << ItemSports, ItemLocal >>, FALSE, <<>>, "g1")

DataNoResults == Payload(FALSE, <<>>, TRUE, HealthOk, "g2")

DataNeither == Payload(FALSE, <<>>, FALSE, <<>>, "g3")

DataMalformed == Payload(TRUE, << ItemSports, ItemNoTrend >>, TRUE, HealthDown, "g4")

\* the bodies a success response may carry
Payloads == { DataNoHealth, DataNoResults, DataNeither, DataMalformed }

\* data.results || []
ResultsOf(data) == IF data.hasResults THEN data.results ELSE <<>>

\* data.source_health || {}
HealthOf(data) == IF data.hasHealth THEN data.source_health ELSE <<>>

WellFormed(data) == \A i \in 1..Len(ResultsOf(data)) : ResultsOf(data)[i].shape = "ok"

\* new Date(t).toLocaleString()
LocaleString(t) == IF t = "" THEN << "Invalid Date" >> ELSE << "locale", t >>

-----------------------------------------------------------------------------
(* The page *)

\* values of the limit control the user may have typed: empty, numeric, not
\* numeric
LimitValues ==
    { <<>>, << "5", "0" >>, << "a", "b", "c" >>, << "5", "a" >> }

\* values of the limit control when the page loads: empty or numeric
InitialLimitValues == { <<>>, << "5", "0" >> }

\* the tabs the user clicks
Tabs == { "all", "sports" }

\* every id of CATEGORIES is made of unreserved characters
encodeURIComponent(id) == id

View == [summary |-> summary, pills |-> pills, cards |-> cards]

StatusAnalyzing(sel) ==
    [text |-> << "Analyzing ", LabelOf(sel), " trends..." >>, isError |-> FALSE]

StatusUpdated(at) ==
    [text |-> << "Updated at " >> \o LocaleString(at) \o << "." >>, isError |-> FALSE]

StatusFailed(message) ==
    [text |-> << "Failed to load analysis: ", message >>, isError |-> TRUE]

IsFailed(st) == st.isError /\ Len(st.text) = 2 /\ st.text[1] = "Failed to load analysis: "

IsUpdated(st) == ~st.isError /\ Len(st.text) > 0 /\ st.text[1] = "Updated at "

Remove(seq, i) == SubSeq(seq, 1, i - 1) \o SubSeq(seq, i + 1, Len(seq))

\* lastOp after a handler that neither issues nor settles a request
Ran(op, arg) == [op |-> op, arg |-> arg, recovery |-> FALSE]

\* lastOp after a handler that called runAnalysis; recovery tells whether the
\* call was made by a click on the refresh button while the status line
\* showed a failure and no other call was suspended
Issued(op, arg) ==
    [ op       |-> op,
      arg      |-> arg,
      recovery |-> (op = "refresh" /\ IsFailed(status) /\ pending = <<>>) ]

\* lastOp after the i-th suspended call has run to its end; a recovery call
\* is the only suspended one, so recovery describes the call that ended
Settled(op, i) ==
    [ op       |-> op,
      arg      |-> pending[i].category,
      recovery |-> lastOp.recovery ]

\* the summary elements' text in the markup
NoSummary == [total |-> 0, misleading |-> 0, real |-> 0, avgFake |-> 0]

NoUrl == [limit |-> Num(0), category |-> "", refresh |-> FALSE]

Init ==
    /\ loaded = FALSE
    /\ selectedCategory = "all"
    /\ limitValue = <<>>
    /\ refreshDisabled = FALSE
    /\ status = [text |-> <<>>, isError |-> FALSE]
    /\ summary = NoSummary
    /\ pills = <<>>
    /\ cards = <<>>
    /\ pending = <<>>
    /\ lastUrl = NoUrl
    /\ lastData = DataNeither
    /\ lastOp = Ran("none", "")

\* a runAnalysis that returns at once while the refresh button is disabled
runAnalysisGuarded(forceRefresh, sel, v) ==
    IF refreshDisabled
    THEN UNCHANGED <<limitValue, lastUrl, status, refreshDisabled, pending>>
    ELSE /\ limitValue' = v
         /\ lastUrl' = [ limit    |-> ReadLimit(v),
                         category |-> encodeURIComponent(sel),
                         refresh  |-> forceRefresh ]
         /\ status' = StatusAnalyzing(sel)
         /\ refreshDisabled' = TRUE
         /\ pending' = Append(pending, [category |-> sel, before |-> View])

\* runAnalysis(forceRefresh) up to its await, with selectedCategory = sel and
\* limitEl.value = v
runAnalysis(forceRefresh, sel, v) ==
    /\ Len(pending) < MaxPending
    /\ limitValue' = v
    /\ lastUrl' = [ limit    |-> ReadLimit(v),
                    category |-> encodeURIComponent(sel),
                    refresh  |-> forceRefresh ]
    /\ status' = StatusAnalyzing(sel)
    /\ refreshDisabled' = TRUE
    /\ pending' = Append(pending, [category |-> sel, before |-> View])

\* the script's top level: renderCategoryTabs(); runAnalysis(false)
PageLoad ==
    /\ ~loaded
    /\ loaded' = TRUE
    /\ \E v \in InitialLimitValues : runAnalysis(FALSE, selectedCategory, v)
    /\ lastOp' = Issued("load", selectedCategory)
    /\ UNCHANGED <<selectedCategory, summary, pills, cards, lastData>>

\* click on the refresh button; a disabled button dispatches no click
RefreshClick ==
    /\ loaded
    /\ ~refreshDisabled
    /\ \E v \in LimitValues : runAnalysis(TRUE, selectedCategory, v)
    /\ lastOp' = Issued("refresh", selectedCategory)
    /\ UNCHANGED <<loaded, selectedCategory, summary, pills, cards, lastData>>

\* click on the tab of category c
TabClick(c) ==
    /\ loaded
    /\ selectedCategory' = c
    /\ \E v \in LimitValues : runAnalysis(TRUE, c, v)
    /\ lastOp' = Issued("tab", c)
    /\ UNCHANGED <<loaded, summary, pills, cards, lastData>>

\* a catch that calls runAnalysis again: the request is made once more
FailRetry(i, op, message) ==
    /\ status' = StatusAnalyzing(selectedCategory)
    /\ refreshDisabled' = TRUE
    /\ pending' = Append(Remove(pending, i),
                         [category |-> selectedCategory, before |-> View])
    /\ lastOp' = Settled(op, i)
    /\ UNCHANGED <<loaded, selectedCategory, limitValue, summary, pills, cards,
                   lastUrl, lastData>>

\* a catch with no finally after it: the refresh button stays disabled
FailNoFinally(i, op, message) ==
    /\ status' = StatusFailed(message)
    /\ pending' = Remove(pending, i)
    /\ lastOp' = Settled(op, i)
    /\ UNCHANGED <<loaded, selectedCategory, limitValue, refreshDisabled, summary,
                   pills, cards, lastUrl, lastData>>

\* catch and finally of the i-th suspended call, nothing rendered
Fail(i, op, message) ==
    /\ status' = StatusFailed(message)
    /\ refreshDisabled' = FALSE
    /\ pending' = Remove(pending, i)
    /\ lastOp' = Settled(op, i)
    /\ UNCHANGED <<loaded, selectedCategory, limitValue, summary, pills, cards,
                   lastUrl, lastData>>

\* fetch rejects
FetchReject(i) == i \in 1..Len(pending) /\ Fail(i, "fetchReject", "Failed to fetch")

\* !response.ok
HttpError(i) == i \in 1..Len(pending) /\ Fail(i, "httpError", "HTTP 500")

\* response.json() rejects
JsonError(i) == i \in 1..Len(pending) /\ Fail(i, "jsonError", "SyntaxError")

\* response.json() resolves with data: the three render calls, then the status
Receive(i, data) ==
    /\ i \in 1..Len(pending)
    /\ LET results == ResultsOf(data)
           drawn   == renderCards(selectedCategory, results)
       IN  /\ summary' = renderSummary(results)
           /\ pills' = renderSourceHealth(HealthOf(data))
           /\ cards' = drawn.nodes
           /\ status' = IF drawn.threw THEN StatusFailed("TypeError")
                        ELSE StatusUpdated(data.generated_at)
           /\ lastOp' = Settled(IF drawn.threw THEN "renderThrew" ELSE "rendered",
                                 i)
    /\ lastData' = data
    /\ refreshDisabled' = FALSE
    /\ pending' = Remove(pending, i)
    /\ UNCHANGED <<loaded, selectedCategory, limitValue, lastUrl>>

Next ==
    \/ PageLoad
    \/ RefreshClick
    \/ \E c \in Tabs : TabClick(c)
    \/ \E i \in 1..MaxPending : FetchReject(i)
    \/ \E i \in 1..MaxPending : HttpError(i)
    \/ \E i \in 1..MaxPending : JsonError(i)
    \/ \E i \in 1..MaxPending, data \in Payloads : Receive(i, data)

Spec == Init /\ [][Next]_vars

-----------------------------------------------------------------------------
(* renderCards applied to every short results array, in both modes *)

RenderItems ==
    { ItemSports, ItemSportsLater, ItemLocal, ItemUnknown, ItemAbsent,
      ItemNoTrend, ItemNoReasons, ItemNoEvidence }

SeqsUpTo(S, n) == UNION { [1..k -> S] : k \in 0..n }

\* source names and status strings renderSourceHealth is applied to
HealthSources ==
    { << "n" >>, << "a", "_", "b" >>, << "a", "_", "b", "_", "c" >> }

HealthStatuses ==
    { << "o", "k" >>,
      << "o", "k", "-", "c" >>,
      << "O", "K" >>,
      << "n", "o", "k" >>,
      << "o" >>,
      << "d", "o", "w", "n" >>,
      << "f", "a", "l", "l", "b", "a", "c", "k" >>,
      << "x", "f", "a", "l", "l", "b", "a", "c", "k", "y" >>,
      << "f", "a", "l", "l", "b", "a", "c" >> }

HealthEntries ==
    { [source |-> src, status |-> st] : src \in HealthSources, st \in HealthStatuses }

\* an object has each key once: the entries of a mapping, in key order, name
\* pairwise different sources
HealthMappings ==
    { health \in SeqsUpTo(HealthEntries, MaxHealth) :
          \A i, j \in 1..Len(health) :
              health[i].source = health[j].source => i = j }

\* the bodies the rendering functions are applied to: a results array with
\* either mode selected, or a source_health mapping
RenderInputs ==
    { [data |-> Payload(TRUE, results, FALSE, <<>>, "g0"), sel |-> sel] :
          results \in SeqsUpTo(RenderItems, MaxResults), sel \in Tabs }
    \cup
    { [data |-> Payload(FALSE, <<>>, TRUE, health, "g0"), sel |-> "all"] :
          health \in HealthMappings }

InitRender ==
    /\ loaded = TRUE
    /\ limitValue = <<>>
    /\ refreshDisabled = FALSE
    /\ status = [text |-> <<>>, isError |-> FALSE]
    /\ summary = NoSummary
    /\ pills = <<>>
    /\ cards = <<>>
    /\ pending = <<>>
    /\ lastUrl = NoUrl
    /\ \E input \in RenderInputs :
           /\ lastData = input.data
           /\ selectedCategory = input.sel
    /\ lastOp = Ran("input", "")

\* one call renderCards(lastData.results)
CallRenderCards ==
    /\ lastOp.op = "input"
    /\ lastData.hasResults
    /\ LET drawn == renderCards(selectedCategory, lastData.results)
       IN  /\ cards' = drawn.nodes
           /\ lastOp' = Ran(IF drawn.threw THEN "renderCardsThrew" ELSE "renderCards",
                         selectedCategory)
    /\ UNCHANGED <<loaded, selectedCategory, limitValue, refreshDisabled, status,
                   summary, pills, pending, lastUrl, lastData>>

\* one call renderSummary(lastData.results)
CallRenderSummary ==
    /\ lastOp.op = "input"
    /\ lastData.hasResults
    /\ summary' = renderSummary(lastData.results)
    /\ lastOp' = Ran("renderSummary", selectedCategory)
    /\ UNCHANGED <<loaded, selectedCategory, limitValue, refreshDisabled, status,
                   pills, cards, pending, lastUrl, lastData>>

\* one call renderSourceHealth(lastData.source_health)
CallRenderSourceHealth ==
    /\ lastOp.op = "input"
    /\ lastData.hasHealth
    /\ pills' = renderSourceHealth(lastData.source_health)
    /\ lastOp' = Ran("renderSourceHealth", selectedCategory)
    /\ UNCHANGED <<loaded, selectedCategory, limitValue, refreshDisabled, status,
                   summary, cards, pending, lastUrl, lastData>>

NextRender ==
    \/ CallRenderCards
    \/ CallRenderSummary
    \/ CallRenderSourceHealth

SpecRender == InitRender /\ [][NextRender]_vars

-----------------------------------------------------------------------------
(* The earlier copy of the script, src/unnamed/part_000: no tabs, no source *)
(* health, no real count, and data.results used as received                *)

legacyRenderSummary(results) ==
    [ summary EXCEPT !.total      = Len(results),
                     !.misleading = CountVerdict(results, LikelyMisleading),
                     !.avgFake    = AvgFakeTenths(results) ]

legacyCard(item) ==
    [ kind         |-> "card",
      title        |-> item.title,
      category     |-> "",
      verdict      |-> item.verdict,
      verdictClass |-> verdictClass(item.verdict),
      fake         |-> item.fake_probability ]

\* the for-of loop: each card is appended at the end of its iteration
RECURSIVE legacyRenderCards(_)
legacyRenderCards(results) ==
    IF results = <<>> THEN [nodes |-> <<>>, threw |-> FALSE]
    ELSE IF BuildCardThrows(Head(results))
         THEN [nodes |-> <<>>, threw |-> TRUE]
         ELSE LET rest == legacyRenderCards(Tail(results))
              IN  [nodes |-> <<legacyCard(Head(results))>> \o rest.nodes,
                   threw |-> rest.threw]

legacyRunAnalysis(forceRefresh, v) ==
    /\ Len(pending) < MaxPending
    /\ limitValue' = v
    /\ lastUrl' = [limit |-> ReadLimit(v), category |-> "", refresh |-> forceRefresh]
    /\ status' = [text |-> << "Analyzing live trends..." >>, isError |-> FALSE]
    /\ refreshDisabled' = TRUE
    /\ pending' = Append(pending, [category |-> "", before |-> View])

LegacyPageLoad ==
    /\ ~loaded
    /\ loaded' = TRUE
    /\ \E v \in InitialLimitValues : legacyRunAnalysis(FALSE, v)
    /\ lastOp' = Issued("load", "")
    /\ UNCHANGED <<selectedCategory, summary, pills, cards, lastData>>

LegacyRefreshClick ==
    /\ loaded
    /\ ~refreshDisabled
    /\ \E v \in LimitValues : legacyRunAnalysis(TRUE, v)
    /\ lastOp' = Issued("refresh", "")
    /\ UNCHANGED <<loaded, selectedCategory, summary, pills, cards, lastData>>

\* response.json() resolves with data: renderSummary(data.results) reads
\* results.length first, which throws when data.results is undefined
LegacyReceive(i, data) ==
    /\ i \in 1..Len(pending)
    /\ IF ~data.hasResults
       THEN /\ status' = StatusFailed("TypeError")
            /\ lastOp' = Settled("summaryThrew", i)
            /\ UNCHANGED <<summary, cards>>
       ELSE LET drawn == legacyRenderCards(data.results)
            IN  /\ summary' = legacyRenderSummary(data.results)
                /\ cards' = drawn.nodes
                /\ status' = IF drawn.threw THEN StatusFailed("TypeError")
                             ELSE StatusUpdated(data.generated_at)
                /\ lastOp' = Settled(IF drawn.threw THEN "renderThrew" ELSE "rendered",
                                 i)
    /\ lastData' = data
    /\ refreshDisabled' = FALSE
    /\ pending' = Remove(pending, i)
    /\ UNCHANGED <<loaded, selectedCategory, limitValue, pills, lastUrl>>

NextLegacy ==
    \/ LegacyPageLoad
    \/ LegacyRefreshClick
    \/ \E i \in 1..MaxPending : FetchReject(i)
    \/ \E i \in 1..MaxPending : HttpError(i)
    \/ \E i \in 1..MaxPending : JsonError(i)
    \/ \E i \in 1..MaxPending, data \in Payloads : LegacyReceive(i, data)

SpecLegacy == Init /\ [][NextLegacy]_vars

-----------------------------------------------------------------------------
(* Properties *)

\* the i-th suspended call settles by one of the three failures that occur
\* before anything is rendered
FailsBeforeRender(i) == FetchReject(i) \/ HttpError(i) \/ JsonError(i)

\* a step in which some suspended call receives data as its parsed body
Received(data) ==
    /\ Len(pending') = Len(pending) - 1
    /\ lastData' = data
    /\ lastOp'.op \in { "rendered", "renderThrew", "summaryThrew" }

\* C1: at most one backend request is outstanding at any time, whatever the
\* sequence of page load, refresh-button clicks and tab clicks.
C1_SingleOutstanding == Len(pending) <= 1

\* C2: when a request fails because fetch rejects, the status is non-success
\* or the body is not JSON, summary, cards and pills are exactly what they
\* were before that request was issued, and the status line reads
\* "Failed to load analysis: <message>".
C2_FailureKeepsView ==
    [][ \A i \in 1..MaxPending :
            FailsBeforeRender(i) =>
                /\ View' = pending[i].before
                /\ IsFailed(status') ]_vars

KnownIds == { CATEGORIES[k] : k \in 1..Len(CATEGORIES) } \ { "all" }

\* the section the specification assigns to a result
ClaimedSection(item) ==
    IF item.category \in KnownIds THEN item.category ELSE "trending"

\* the j-th smallest element of a set of integers
Nth(S, j) == CHOOSE x \in S : Cardinality({ y \in S : y < x }) = j - 1

\* the cards of the results at the indices S, in response order
CardsAt(results, S) ==
    [ j \in 1..Cardinality(S) |-> buildCard(results[Nth(S, j)]) ]

\* the cards displayed under the section of category id (none if no section)
ShownIn(id) ==
    IF \E k \in 1..Len(cards) : cards[k].kind = "section" /\ cards[k].id = id
    THEN (CHOOSE node \in { cards[k] : k \in 1..Len(cards) } :
              node.kind = "section" /\ node.id = id).items
    ELSE <<>>

RECURSIVE CountShown(_)
CountShown(nodes) ==
    IF nodes = <<>> THEN 0
    ELSE (IF Head(nodes).kind = "section" THEN Len(Head(nodes).items) ELSE 1)
         + CountShown(Tail(nodes))

\* C3: in "all" mode renderCards partitions the results: every result is
\* displayed in exactly one section, a result whose category is absent or
\* unknown in the "trending" section, none dropped and none duplicated.
C3_AllModePartition ==
    (lastOp.op = "renderCards" /\ selectedCategory = "all") =>
        LET results == lastData.results
        IN  /\ CountShown(cards) = Len(results)
            /\ \A id \in KnownIds :
                   ShownIn(id) =
                       CardsAt(results, { i \in 1..Len(results) :
                                              ClaimedSection(results[i]) = id })

\* C4: whenever a request issued by runAnalysis is outstanding, the refresh
\* button is disabled.
C4_DisabledWhilePending == pending # <<>> => refreshDisabled

\* C5: a success response whose payload has not the expected shape is not
\* rendered in part: the request ends in the error state and summary, pills
\* and cards are what they were before the request.
C5_NoPartialRendering ==
    [][ \A i \in 1..MaxPending : \A data \in Payloads :
            (Receive(i, data) /\ ~WellFormed(data)) =>
                /\ IsFailed(status')
                /\ View' = pending[i].before ]_vars

\* the limit the specification assigns to a value of the control
ClaimedLimit(v) ==
    IF v # <<>> /\ \A i \in 1..Len(v) : IsDigit(v[i])
    THEN Num(DecimalValue(v))
    ELSE Num(DefaultLimit)

\* C6: every request carries a numeric limit: the control's numeric value
\* when that is a valid number, 20 when it is empty or not a number.
C6_LimitNumericOrDefault ==
    loaded => (~lastUrl.limit.isNaN /\ lastUrl.limit = ClaimedLimit(limitValue))

\* C7: with a category c other than "all" selected, a refresh issues a request
\* carrying category=c, and the response to that request is displayed as the
\* flat sequence of all its results in response order.
C7_SingleCategoryFlat ==
    [][ /\ \A c \in Tabs \ { "all" } :
               ((RefreshClick /\ selectedCategory = c) \/ TabClick(c)) =>
                   /\ lastUrl'.category = c
                   /\ pending'[Len(pending')].category = c
        /\ \A i \in 1..MaxPending : \A data \in Payloads :
               (Receive(i, data) /\ pending[i].category # "all" /\ WellFormed(data)) =>
                   cards' = BuildCards(ResultsOf(data)) ]_vars

IndexOf(id) == CHOOSE k \in 1..Len(CATEGORIES) : CATEGORIES[k] = id

\* indices of the results a section of category id is made of
MatchingIn(results, id) ==
    { i \in 1..Len(results) :
          /\ results[i].shape # "noTrend"
          /\ \/ results[i].category = id
             \/ (id = "trending" /\ results[i].category = "") }

\* C8: in "all" mode the sections appear in the order of CATEGORIES (without
\* "all"), a category without matching result has no section, and the cards
\* of a section keep the relative order of the results in the response.
C8_SectionsInCategoryOrder ==
    (lastOp.op \in { "renderCards", "renderCardsThrew" } /\ selectedCategory = "all") =>
        /\ \A k \in 1..Len(cards) :
               /\ cards[k].kind = "section"
               /\ cards[k].id \in KnownIds
               /\ MatchingIn(lastData.results, cards[k].id) # {}
               /\ cards[k].items =
                      CardsAt(lastData.results, MatchingIn(lastData.results, cards[k].id))
        /\ \A j, k \in 1..Len(cards) :
               j < k => IndexOf(cards[j].id) < IndexOf(cards[k].id)

C8_Witness ==
    /\ lastOp.op = "renderCards"
    /\ selectedCategory = "all"
    /\ lastData.results = << ItemSports, ItemLocal, ItemSportsLater >>
    /\ Len(cards) = 2
    /\ cards[1].id = "local"
    /\ cards[2].id = "sports"
    /\ cards[2].items = << buildCard(ItemSports), buildCard(ItemSportsLater) >>

\* C9: a click on a tab sets selectedCategory to the tab's id and issues, in
\* the same step, exactly one new request carrying that category; the cards,
\* summary and pills are not redrawn from the batch received before.
C9_TabClickIssuesRequest ==
    [][ \A c \in Tabs :
            TabClick(c) =>
                /\ selectedCategory' = c
                /\ Len(pending') = Len(pending) + 1
                /\ SubSeq(pending', 1, Len(pending)) = pending
                /\ pending'[Len(pending')].category = c
                /\ lastUrl'.category = c
                /\ View' = View ]_vars

C9_Witness ==
    /\ lastOp.op = "tab"
    /\ lastOp.arg = "sports"
    /\ selectedCategory = "sports"
    /\ lastUrl.category = "sports"
    /\ Len(pending) = 2
    /\ pending[2].category = "sports"
    /\ cards # <<>>

\* C10: a success response lacking results, source_health or both is not a
\* failure: the missing field counts as empty, the view shows zero totals, no
\* cards and no pills accordingly, and the status line reads "Updated at ...".
C10_MissingFieldsDegrade ==
    [][ \A data \in Payloads :
            (Received(data) /\ WellFormed(data) /\ (~data.hasResults \/ ~data.hasHealth)) =>
                /\ IsUpdated(status')
                /\ ~data.hasResults =>
                       /\ summary'.total = 0
                       /\ summary'.misleading = 0
                       /\ summary'.avgFake = 0
                       /\ cards' = <<>>
                /\ ~data.hasHealth => pills' = <<>> ]_vars

\* the source name with every underscore replaced by a space
AllUnderscoresReplaced(name) ==
    [ i \in 1..Len(name) |-> IF name[i] = "_" THEN " " ELSE name[i] ]

\* C11: the label of a pill is the source name with every underscore replaced
\* by a space, then ": " and the raw status string, also for names with two
\* or more underscores.
C11_PillLabel ==
    lastOp.op = "renderSourceHealth" =>
        /\ Len(pills) = Len(lastData.source_health)
        /\ \A k \in 1..Len(pills) :
               pills[k].text =
                   AllUnderscoresReplaced(lastData.source_health[k].source)
                       \o << ":", " " >> \o lastData.source_health[k].status

\* the status starts with "ok" or contains "fallback"
ClaimedOk(st) ==
    \/ (Len(st) >= 2 /\ st[1] = "o" /\ st[2] = "k")
    \/ \E i \in 1..Len(st) :
           /\ i + 7 <= Len(st)
           /\ \A j \in 1..8 : st[i + j - 1] = FallbackWord[j]

\* C17: a pill is classified ok exactly when its status starts with "ok" or
\* contains "fallback", and as a warning in every other case.
C17_PillClass ==
    lastOp.op = "renderSourceHealth" =>
        /\ Len(pills) = Len(lastData.source_health)
        /\ \A k \in 1..Len(pills) :
               pills[k].ok <=> ClaimedOk(lastData.source_health[k].status)

C17_Witness ==
    /\ lastOp.op = "renderSourceHealth"
    /\ Len(pills) = 2
    /\ lastData.source_health[1].status =
           << "x", "f", "a", "l", "l", "b", "a", "c", "k", "y" >>
    /\ pills[1].ok
    /\ lastData.source_health[2].status = << "n", "o", "k" >>
    /\ ~pills[2].ok

\* what one result adds to the misleading and to the real count
TallyOf(r) ==
    [ misleading |-> IF r.verdict = LikelyMisleading THEN 1 ELSE 0,
      real       |-> IF r.verdict = LikelyReal THEN 1 ELSE 0 ]

RECURSIVE Tally(_)
Tally(results) ==
    IF results = <<>> THEN [misleading |-> 0, real |-> 0]
    ELSE LET rest == Tally(Tail(results))
             one  == TallyOf(Head(results))
         IN [ misleading |-> one.misleading + rest.misleading,
              real       |-> one.real + rest.real ]

\* C12: renderSummary shows the number of results as total, the number with
\* verdict "Likely Misleading" as misleading and the number with verdict
\* "Likely Real" as real; a result is counted in at most one of the two, so
\* misleading + real <= total; for the empty batch total, misleading, real
\* and the average fake probability are all 0.
C12_SummaryCounts ==
    lastOp.op = "renderSummary" =>
        /\ summary.total = Len(lastData.results)
        /\ summary.misleading = Tally(lastData.results).misleading
        /\ summary.real = Tally(lastData.results).real
        /\ \A i \in 1..Len(lastData.results) :
               TallyOf(lastData.results[i]).misleading
                   + TallyOf(lastData.results[i]).real <= 1
        /\ summary.misleading + summary.real <= summary.total
        /\ (lastData.results = <<>> =>
               /\ summary.total = 0
               /\ summary.misleading = 0
               /\ summary.real = 0
               /\ summary.avgFake = 0)

C12_Witness ==
    /\ lastOp.op = "renderSummary"
    /\ summary.total = 3
    /\ summary.misleading = 1
    /\ summary.real = 1

\* the handlers that end a suspended call of runAnalysis
SettleOps ==
    { "fetchReject", "httpError", "jsonError", "renderThrew", "rendered" }

\* C13: every failure is recoverable: when a request has settled, by success
\* or by any failure, the refresh button is enabled; in the Error state the
\* button is enabled and a click on it issues a new request; when that
\* request succeeds, summary, pills and cards are those of its response and
\* the status line reads "Updated at ...".
C13_FailureRecoverable ==
    /\ lastOp.op \in SettleOps => ~refreshDisabled
    /\ IsFailed(status) => (~refreshDisabled /\ ENABLED RefreshClick)
    /\ (lastOp.op = "refresh" /\ lastOp.recovery) =>
           /\ pending # <<>>
           /\ pending[Len(pending)].category = selectedCategory
           /\ lastUrl.refresh
           /\ lastUrl.category = selectedCategory
    /\ (lastOp.op = "rendered" /\ lastOp.recovery) =>
           /\ IsUpdated(status)
           /\ summary = renderSummary(ResultsOf(lastData))
           /\ pills = renderSourceHealth(HealthOf(lastData))
           /\ cards = renderCards(selectedCategory, ResultsOf(lastData)).nodes

\* a failure, a click on the refresh button, and the success of that request
C13_Witness ==
    /\ lastOp.op = "rendered"
    /\ lastOp.recovery
    /\ IsUpdated(status)
    /\ ~refreshDisabled
    /\ pending = <<>>
    /\ cards # <<>>

\* the handlers that call runAnalysis: the script's top level, the click
\* listener of the refresh button, the click listener of a tab
Triggers == { "load", "refresh", "tab" }

\* C14: no request is issued automatically: a step that issues a request is
\* the page load, a refresh click or a tab click, it is one of them only, and
\* it issues one request; the page loads once; a step that settles a
\* request, failed or not, issues none.
C14_NoAutomaticRequest ==
    [][ /\ (Len(pending') > Len(pending) \/ lastUrl' # lastUrl) =>
               /\ lastOp'.op \in Triggers
               /\ Len(pending') = Len(pending) + 1
               /\ SubSeq(pending', 1, Len(pending)) = pending
        /\ lastOp'.op = "load" => (~loaded /\ loaded')
        /\ lastOp'.op \in SettleOps =>
               /\ Len(pending') = Len(pending) - 1
               /\ \E i \in 1..Len(pending) : pending' = Remove(pending, i)
               /\ lastUrl' = lastUrl ]_vars

\* a request has failed and nothing is outstanding
C14_Witness ==
    /\ lastOp.op \in { "fetchReject", "httpError", "jsonError" }
    /\ IsFailed(status)
    /\ pending = <<>>
    /\ ~refreshDisabled

\* the cards of a response alone, in the mode of the category sel
CardsOfResponse(sel, results) ==
    IF sel = "all"
    THEN RenderSections(SectionCategories(CATEGORIES), results).nodes
    ELSE RenderFlat(results).nodes

\* C15: after a successful refresh the cards, the summary and the pills are
\* exactly those derived from that response and the selected category:
\* nothing displayed before remains, nothing is merged, whatever successes
\* and failures came before.
C15_ViewFromResponseOnly ==
    lastOp.op = "rendered" =>
        /\ summary = renderSummary(ResultsOf(lastData))
        /\ summary.total = Len(ResultsOf(lastData))
        /\ pills = renderSourceHealth(HealthOf(lastData))
        /\ Len(pills) = Len(HealthOf(lastData))
        /\ cards = CardsOfResponse(selectedCategory, ResultsOf(lastData))

\* a success that follows a displayed batch with cards, totals and pills, and
\* whose own response has neither results nor source_health
C15_Witness ==
    /\ lastOp.op = "rendered"
    /\ lastData = DataNeither
    /\ cards = <<>>
    /\ pills = <<>>
    /\ summary = NoSummary
    /\ \E k \in 1..Len(pending) :
           /\ pending[k].before.cards # <<>>

\* C18: a stale response never overwrites a newer one: when no request is
\* outstanding and the request settled last succeeded, the view comes from
\* the response to the request issued most recently, which carried
\* category = selectedCategory; so the request whose response is displayed
\* carried category = selectedCategory.
C18_NoStaleOverwrite ==
    (pending = <<>> /\ lastOp.op = "rendered") =>
        lastOp.arg = selectedCategory

\* C19: the mode a response is rendered in, sectioned for "all" and flat
\* otherwise, is the mode of the category its own request carried, also when
\* a tab click changed selectedCategory while the request was outstanding.
C19_ModeOfOwnRequest ==
    [][ \A i \in 1..MaxPending : \A data \in Payloads :
            (Receive(i, data) /\ WellFormed(data)) =>
                cards' = CardsOfResponse(pending[i].category, ResultsOf(data)) ]_vars

\* the rearrangements of a sequence
PermutationsOf(seq) ==
    { [ i \in 1..Len(seq) |-> seq[f[i]] ] :
          f \in { g \in [1..Len(seq) -> 1..Len(seq)] :
                      \A i, j \in 1..Len(seq) : g[i] = g[j] => i = j } }

\* C16: the summary renderSummary computes, that is total, misleading count,
\* real count and average fake probability, is the same for every
\* permutation of the results.
C16_SummaryPermutationInvariant ==
    lastOp.op = "renderSummary" =>
        \A permuted \in PermutationsOf(lastData.results) :
            renderSummary(permuted) = summary

====
